---------------------------- MODULE Spec2Model ----------------------------
(***************************************************************************)
(* Air Lift: a Hostess process, N Passenger processes and a Pilot process  *)
(* synchronised by a set of System V semaphores over one shared-memory     *)
(* record (sh->fSt).                                                       *)
(*                                                                         *)
(* Every semaphore operation is one step of the process that issues it,    *)
(* and every statement that reads or writes sh->fSt is one step, so that   *)
(* the states inside the critical regions are states of the model.         *)
(* The Hostess is semSharedMemHostess.c, a Passenger is                    *)
(* semSharedMemPassenger.c.  The Pilot, the semaphore primitives and the   *)
(* problem constants are not part of these two files; they follow the      *)
(* signal contract and the data model of the design document.              *)
(***************************************************************************)
EXTENDS Integers, FiniteSets, Sequences, TLC

(* Problem constants (probConst.h), scaled down for model checking. *)
N == 4
MINFC == 2
MAXFC == 3

(* The passenger ids of the launcher: one process per id in [0, N). *)
Passengers == 0 .. (N - 1)

(* Values of argv[1] outside [0, N) that a passenger process may be        *)
(* started with.  The value is held in the int n of main() and becomes the *)
(* unsigned passengerId of the operations; a process is named by its n.    *)
ExtraArgs == {0 - N, 0 - 1, N}

Procs == Passengers \cup ExtraArgs

(* main(): the process returns EXIT_FAILURE if the character strtol        *)
(* stopped at (tinp, 0 for the end of the string) is not the end of        *)
(* argv[1] or if n >= N; n is a signed int, so a negative n passes the     *)
(* test.                                                                   *)
idAccepted(n, tinp) == ~((tinp # 0) \/ (n >= N))

(* What main() is given besides n: the argument count, the characters      *)
(* strtol stopped at in argv[1] and in argv[3] (0 for the end of the       *)
(* string, 120 for a trailing 'x'), the length of the log file name        *)
(* argv[2], and the results of semConnect, shmemConnect and shmemAttach.   *)
LaunchEnvs == [argc : {4, 5}, tinp1 : {0, 120}, nFicLen : {8, 51},
               tinp3 : {0, 120},
               semgid : {0 - 1, 1}, shmid : {0 - 1, 1}, attach : {0 - 1, 0}]

(* passengerStat[] has N entries; passengerId is unsigned, so a negative n *)
(* indexes at n + 2^32, beyond the array and the shared region.            *)
inBounds(n) == 0 <= n /\ n < N

(* The semaphores of the set. *)
Gates == {"mutex", "passengersInQueue", "passengersWaitInQueue", "idShown",
          "readyForBoarding", "readyToFlight", "passengersWaitInFlight",
          "planeEmpty"}

(***************************************************************************)
(* The declaration of sh->fSt is not part of the sources, so the order of  *)
(* its words is fixed by the build and unknown here.  A layout names the   *)
(* words before nPassengersInFlight[] (the nearest first) and the words    *)
(* after it.  LayoutDataModel is the field order of the data model, where  *)
(* nFlight is declared directly before the sequence and finished directly  *)
(* after it; in LayoutFlagFirst the flag and the scratch field are         *)
(* declared before the sequence; in LayoutApart the sequence has no field  *)
(* of the record as a neighbour.  "other" is a word that is no field of    *)
(* this model.                                                             *)
(***************************************************************************)
LayoutDataModel ==
    [before |-> <<"nFlight", "totalPassBoarded", "nPassInFlight",
                  "nPassInQueue">>,
     after |-> <<"finished", "passengerChecked">>]
LayoutFlagFirst ==
    [before |-> <<"finished", "passengerChecked">>, after |-> <<>>]
LayoutApart == [before |-> <<>>, after |-> <<>>]
Layouts == {LayoutDataModel, LayoutFlagFirst, LayoutApart}

(* The word that the address of nPassengersInFlight[i] designates, for an  *)
(* index i outside the sequence of N entries.                              *)
wordAt(lay, i) ==
    IF i < 0
    THEN IF 0 - i <= Len(lay.before) THEN lay.before[0 - i] ELSE "other"
    ELSE IF i - N + 1 <= Len(lay.after) THEN lay.after[i - N + 1]
         ELSE "other"

VARIABLES
    sem,                 \* value of every semaphore of the set
    nPassInQueue,        \* sh->fSt.nPassInQueue
    nPassInFlight,       \* sh->fSt.nPassInFlight
    totalPassBoarded,    \* sh->fSt.totalPassBoarded
    nFlight,             \* sh->fSt.nFlight
    nPassengersInFlight, \* sh->fSt.nPassengersInFlight[]
    layout,              \* the words of sh->fSt next to nPassengersInFlight[]
    finished,            \* sh->fSt.finished
    passengerChecked,    \* sh->fSt.passengerChecked
    hostessStat,         \* sh->fSt.st.hostessStat
    passengerStat,       \* sh->fSt.st.passengerStat[]
    hpc,                 \* Hostess: next statement
    nPassengers,         \* Hostess main(): local nPassengers
    last,                \* Hostess: checkPassport()'s result
    ppc,                 \* Passenger p: next statement
    plpc,                \* Pilot: next statement
    toDrop,              \* Pilot: passengers still to be released
    rfbConsumed,         \* history: downs of readyForBoarding done by the Hostess
    rtfSignalled,        \* history: ups of readyToFlight done by the Hostess
    departed,            \* history: nPassInFlight at each up of readyToFlight
    snapshot,            \* log: the statuses written by the last saveState
    checkedEvents,       \* log: savePassengerChecked events per passenger id
    opFailed             \* history: processes that had a semaphore operation fail

shared == <<nPassInQueue, nPassInFlight, totalPassBoarded, nFlight, layout,
            nPassengersInFlight, finished, passengerChecked, hostessStat,
            passengerStat>>
hlocal == <<hpc, nPassengers, last, rfbConsumed, rtfSignalled, departed>>
pllocal == <<plpc, toDrop>>
logged == <<snapshot, checkedEvents>>
vars == <<sem, shared, hlocal, ppc, pllocal, logged, opFailed>>

(***************************************************************************)
(* Semaphore primitives: down blocks while the value is 0 and then         *)
(* decrements it, up increments it.                                        *)
(***************************************************************************)
semDown(g) == /\ sem[g] > 0
              /\ sem' = [sem EXCEPT ![g] = @ - 1]

semUp(g) == sem' = [sem EXCEPT ![g] = @ + 1]

(***************************************************************************)
(* Logging: saveState appends a snapshot of the statuses as they are after *)
(* the statements of the step; savePassengerChecked appends a check-in     *)
(* event carrying sh->fSt.passengerChecked.                                *)
(***************************************************************************)
saveState ==
    snapshot' = [hostess |-> hostessStat', passenger |-> passengerStat']

savePassengerChecked ==
    checkedEvents' = [checkedEvents EXCEPT ![passengerChecked] = @ + 1]

InitButProcesses ==
    /\ sem = [g \in Gates |-> IF g = "mutex" THEN 1 ELSE 0]
    /\ nPassInQueue = 0
    /\ nPassInFlight = 0
    /\ totalPassBoarded = 0
    /\ nFlight = 0
    /\ layout \in Layouts
    /\ nPassengersInFlight = [f \in 0 .. (N - 1) |-> 0]
    /\ finished = FALSE
    /\ passengerChecked = 0
    /\ hostessStat = "WAIT_FOR_FLIGHT"
    /\ passengerStat = [p \in Passengers |-> "UNSTARTED"]
    /\ hpc = "main_while"
    /\ nPassengers = 0
    /\ last = FALSE
    /\ toDrop = 0
    /\ rfbConsumed = 0
    /\ rtfSignalled = 0
    /\ departed = <<>>
    /\ snapshot = [hostess |-> "WAIT_FOR_FLIGHT",
                   passenger |-> [p \in Passengers |-> "UNSTARTED"]]
    /\ checkedEvents = [p \in Procs |-> 0]
    /\ opFailed = [hostess |-> FALSE,
                   passenger |-> [p \in Passengers |-> FALSE]]

(* The launcher starts one passenger process per id in [0, N); each passes *)
(* the test of main() and is at its first operation.                       *)
InitButPilot ==
    /\ InitButProcesses
    /\ ppc = [p \in Procs |->
                 IF p \in Passengers THEN "travelToAirport" ELSE "p_absent"]

Init == InitButPilot /\ plpc = "pl_boarding"

(***************************************************************************)
(*                              The Hostess                                *)
(***************************************************************************)

(* Faulty variant of the loop test: while (nPassengers <= N). *)
main_while_offByOne ==
    /\ hpc = "main_while"
    /\ hpc' = IF nPassengers <= N THEN "wff_enter" ELSE "h_done"
    /\ UNCHANGED <<sem, shared, nPassengers, last, rfbConsumed, rtfSignalled, departed,
                   ppc, pllocal, opFailed, snapshot, checkedEvents>>

(* main(): while (nPassengers < N) *)
main_while ==
    /\ hpc = "main_while"
    /\ hpc' = IF nPassengers < N THEN "wff_enter" ELSE "h_done"
    /\ UNCHANGED <<sem, shared, nPassengers, last, rfbConsumed, rtfSignalled, departed,
                   ppc, pllocal, opFailed, snapshot, checkedEvents>>

(* A step of the Hostess that only moves to the next statement after a     *)
(* semaphore operation.                                                    *)
hStep(from, to) ==
    /\ hpc = from
    /\ hpc' = to
    /\ UNCHANGED <<shared, nPassengers, last, rfbConsumed, rtfSignalled, departed, ppc,
                   pllocal, opFailed, snapshot, checkedEvents>>

(* A step of the Hostess inside a critical region that writes hostessStat   *)
(* and saves the state.                                                    *)
hStat(from, to, st) ==
    /\ hpc = from
    /\ hpc' = to
    /\ hostessStat' = st
    /\ UNCHANGED <<sem, nPassInQueue, nPassInFlight, totalPassBoarded,
                   nFlight, layout, nPassengersInFlight, finished, passengerChecked,
                   passengerStat, nPassengers, last, rfbConsumed,
                   rtfSignalled, departed, ppc, pllocal, opFailed, checkedEvents>>
    /\ saveState

(* waitForNextFlight() *)
waitForNextFlight_enter == hStep("wff_enter", "wff_stat") /\ semDown("mutex")

waitForNextFlight_stat == hStat("wff_stat", "wff_exit", "WAIT_FOR_FLIGHT")

waitForNextFlight_exit == hStep("wff_exit", "wff_wait") /\ semUp("mutex")

(* Faulty variant: the Hostess does not wait for readyForBoarding. *)
waitForNextFlight_wait_noWait ==
    /\ hpc = "wff_wait"
    /\ hpc' = "wfp_enter"
    /\ rfbConsumed' = rfbConsumed + 1
    /\ UNCHANGED <<sem, shared, nPassengers, last, rtfSignalled, departed, ppc,
                   pllocal, opFailed, snapshot, checkedEvents>>

waitForNextFlight_wait ==
    /\ hpc = "wff_wait"
    /\ semDown("readyForBoarding")
    /\ hpc' = "wfp_enter"
    /\ rfbConsumed' = rfbConsumed + 1
    /\ UNCHANGED <<shared, nPassengers, last, rtfSignalled, departed, ppc, pllocal,
                   opFailed, snapshot, checkedEvents>>

(* waitForPassenger() *)
waitForPassenger_enter == hStep("wfp_enter", "wfp_stat") /\ semDown("mutex")

waitForPassenger_stat == hStat("wfp_stat", "wfp_exit", "WAIT_FOR_PASSENGER")

waitForPassenger_exit == hStep("wfp_exit", "wfp_wait") /\ semUp("mutex")

waitForPassenger_wait ==
    hStep("wfp_wait", "cp_call") /\ semDown("passengersInQueue")

(* checkPassport() *)
checkPassport_call ==
    hStep("cp_call", "cp_enter1") /\ semUp("passengersWaitInQueue")

checkPassport_enter1 == hStep("cp_enter1", "cp_stat") /\ semDown("mutex")

checkPassport_stat == hStat("cp_stat", "cp_exit1", "CHECK_PASSPORT")

checkPassport_exit1 == hStep("cp_exit1", "cp_idShown") /\ semUp("mutex")

(* Faulty variant: the Hostess does not wait for idShown. *)
checkPassport_idShown_noWait ==
    hStep("cp_idShown", "cp_enter2") /\ UNCHANGED sem

checkPassport_idShown == hStep("cp_idShown", "cp_enter2") /\ semDown("idShown")

(* Faulty variant: the counters are updated without entering the critical  *)
(* region.                                                                 *)
checkPassport_enter2_noLock ==
    hStep("cp_enter2", "cp_queue") /\ UNCHANGED sem

checkPassport_enter2 == hStep("cp_enter2", "cp_queue") /\ semDown("mutex")

(* Faulty variant: nPassInQueue is not decremented. *)
checkPassport_queue_skip ==
    /\ hpc = "cp_queue"
    /\ hpc' = "cp_flight"
    /\ UNCHANGED <<sem, shared, nPassengers, last, rfbConsumed, rtfSignalled, departed,
                   ppc, pllocal, opFailed, snapshot, checkedEvents>>

(* sh->fSt.nPassInQueue-- *)
checkPassport_queue ==
    /\ hpc = "cp_queue"
    /\ hpc' = "cp_flight"
    /\ nPassInQueue' = nPassInQueue - 1
    /\ UNCHANGED <<sem, nPassInFlight, totalPassBoarded, nFlight, layout,
                   nPassengersInFlight, finished, passengerChecked,
                   hostessStat, passengerStat, nPassengers, last,
                   rfbConsumed, rtfSignalled, departed, ppc, pllocal, opFailed,
                   snapshot, checkedEvents>>

(* Faulty variant: nPassInFlight is not incremented. *)
checkPassport_flight_skip ==
    /\ hpc = "cp_flight"
    /\ hpc' = "cp_total"
    /\ UNCHANGED <<sem, shared, nPassengers, last, rfbConsumed, rtfSignalled,
                   departed, ppc, pllocal, opFailed, snapshot, checkedEvents>>

(* sh->fSt.nPassInFlight++ *)
checkPassport_flight ==
    /\ hpc = "cp_flight"
    /\ hpc' = "cp_total"
    /\ nPassInFlight' = nPassInFlight + 1
    /\ UNCHANGED <<sem, nPassInQueue, totalPassBoarded, nFlight, layout,
                   nPassengersInFlight, finished, passengerChecked,
                   hostessStat, passengerStat, nPassengers, last,
                   rfbConsumed, rtfSignalled, departed, ppc, pllocal, opFailed,
                   snapshot, checkedEvents>>

(* Faulty variant: totalPassBoarded is not incremented. *)
checkPassport_total_skip ==
    /\ hpc = "cp_total"
    /\ hpc' = "cp_last"
    /\ UNCHANGED <<sem, shared, nPassengers, last, rfbConsumed, rtfSignalled, departed,
                   ppc, pllocal, opFailed, snapshot, checkedEvents>>

(* sh->fSt.totalPassBoarded++; savePassengerChecked; saveState *)
checkPassport_total ==
    /\ hpc = "cp_total"
    /\ hpc' = "cp_last"
    /\ totalPassBoarded' = totalPassBoarded + 1
    /\ savePassengerChecked
    /\ UNCHANGED <<sem, nPassInQueue, nPassInFlight, nFlight, layout,
                   nPassengersInFlight, finished, passengerChecked,
                   hostessStat, passengerStat, nPassengers, last,
                   rfbConsumed, rtfSignalled, departed, ppc, pllocal, opFailed>>
    /\ saveState

(* Faulty variant of the departure decision: the capacity test is missing. *)
lastPassenger_noCapacity(inFlight, inQueue, total) ==
    IF inFlight >= MINFC /\ inQueue = 0 THEN TRUE
    ELSE IF total = N THEN TRUE
    ELSE FALSE

(* Faulty variant of the departure decision: an empty queue alone makes    *)
(* the flight ready, whatever the headcount.                               *)
lastPassenger_noMinimum(inFlight, inQueue, total) ==
    IF inFlight = MAXFC THEN TRUE
    ELSE IF inQueue = 0 THEN TRUE
    ELSE IF total = N THEN TRUE
    ELSE FALSE

(* Faulty variant of the departure decision: the minimum is tested with >  *)
(* instead of >=.                                                          *)
lastPassenger_strictMinimum(inFlight, inQueue, total) ==
    IF inFlight = MAXFC THEN TRUE
    ELSE IF inFlight > MINFC /\ inQueue = 0 THEN TRUE
    ELSE IF total = N THEN TRUE
    ELSE FALSE

(* The departure decision: the if / else-if chain that sets `last'. *)
lastPassenger(inFlight, inQueue, total) ==
    IF inFlight = MAXFC THEN TRUE
    ELSE IF inFlight >= MINFC /\ inQueue = 0 THEN TRUE
    ELSE IF total = N THEN TRUE
    ELSE FALSE

checkPassport_last ==
    /\ hpc = "cp_last"
    /\ hpc' = "cp_exit2"
    /\ last' = lastPassenger(nPassInFlight, nPassInQueue, totalPassBoarded)
    /\ UNCHANGED <<sem, shared, nPassengers, rfbConsumed, rtfSignalled, departed, ppc,
                   pllocal, opFailed, snapshot, checkedEvents>>

checkPassport_exit2 == hStep("cp_exit2", "main_count") /\ semUp("mutex")

(* Faulty variant: the loop goes back to checkPassport, not to             *)
(* waitForPassenger.                                                       *)
main_count_toCheckPassport ==
    /\ hpc = "main_count"
    /\ nPassengers' = nPassengers + 1
    /\ hpc' = IF ~last THEN "cp_call" ELSE "srf_enter"
    /\ UNCHANGED <<sem, shared, last, rfbConsumed, rtfSignalled, departed, ppc,
                   pllocal, opFailed, snapshot, checkedEvents>>

(* main(): nPassengers++; } while (!lastPassengerInFlight); *)
main_count ==
    /\ hpc = "main_count"
    /\ nPassengers' = nPassengers + 1
    /\ hpc' = IF ~last THEN "wfp_enter" ELSE "srf_enter"
    /\ UNCHANGED <<sem, shared, last, rfbConsumed, rtfSignalled, departed, ppc,
                   pllocal, opFailed, snapshot, checkedEvents>>

(* signalReadyToFlight() *)
signalReadyToFlight_enter == hStep("srf_enter", "srf_stat") /\ semDown("mutex")

signalReadyToFlight_stat == hStat("srf_stat", "srf_record", "READY_TO_FLIGHT")

(* A store of the integer v on the word w of sh->fSt; on the flag         *)
(* finished a non-zero integer reads as true.                              *)
storeWord(w, v) ==
    /\ nPassInQueue' = IF w = "nPassInQueue" THEN v ELSE nPassInQueue
    /\ nPassInFlight' = IF w = "nPassInFlight" THEN v ELSE nPassInFlight
    /\ totalPassBoarded' =
           IF w = "totalPassBoarded" THEN v ELSE totalPassBoarded
    /\ nFlight' = IF w = "nFlight" THEN v ELSE nFlight
    /\ finished' = IF w = "finished" THEN v # 0 ELSE finished
    /\ passengerChecked' =
           IF w = "passengerChecked" THEN v ELSE passengerChecked

(* sh->fSt.nPassengersInFlight[sh->fSt.nFlight - 1] = sh->fSt.nPassInFlight *)
(* The store is not guarded.  With nFlight - 1 inside the array the entry  *)
(* is written.  Outside it (nFlight = 0 gives index -1) the store is       *)
(* undefined behaviour: it lands on the word that the layout of the build  *)
(* puts at that offset, nFlight itself in the field order of the data      *)
(* model.                                                                  *)
signalReadyToFlight_record ==
    /\ hpc = "srf_record"
    /\ hpc' = "srf_finished"
    /\ IF (nFlight - 1) \in DOMAIN nPassengersInFlight
       THEN /\ nPassengersInFlight' =
                   [nPassengersInFlight EXCEPT ![nFlight - 1] = nPassInFlight]
            /\ UNCHANGED <<nPassInQueue, nPassInFlight, totalPassBoarded,
                           nFlight, finished, passengerChecked>>
       ELSE /\ nPassengersInFlight' = nPassengersInFlight
            /\ storeWord(wordAt(layout, nFlight - 1), nPassInFlight)
    /\ UNCHANGED <<sem, layout, hostessStat, passengerStat, nPassengers, last,
                   rfbConsumed, rtfSignalled, departed, ppc, pllocal, opFailed,
                   snapshot, checkedEvents>>

(* Faulty variant: finished is never set. *)
signalReadyToFlight_finished_never ==
    /\ hpc = "srf_finished"
    /\ hpc' = "srf_exit"
    /\ UNCHANGED <<sem, shared, nPassengers, last, rfbConsumed, rtfSignalled,
                   departed, ppc, pllocal, opFailed, snapshot, checkedEvents>>

(* if (sh->fSt.totalPassBoarded == N) sh->fSt.finished = true *)
signalReadyToFlight_finished ==
    /\ hpc = "srf_finished"
    /\ hpc' = "srf_exit"
    /\ finished' = IF totalPassBoarded = N THEN TRUE ELSE finished
    /\ UNCHANGED <<sem, nPassInQueue, nPassInFlight, totalPassBoarded,
                   nFlight, layout, nPassengersInFlight, passengerChecked,
                   hostessStat, passengerStat, nPassengers, last,
                   rfbConsumed, rtfSignalled, departed, ppc, pllocal, opFailed,
                   snapshot, checkedEvents>>

signalReadyToFlight_exit == hStep("srf_exit", "srf_signal") /\ semUp("mutex")

signalReadyToFlight_signal ==
    /\ hpc = "srf_signal"
    /\ semUp("readyToFlight")
    /\ hpc' = "main_while"
    /\ rtfSignalled' = rtfSignalled + 1
    /\ departed' = Append(departed, nPassInFlight)
    /\ UNCHANGED <<shared, nPassengers, last, rfbConsumed, ppc, pllocal,
                   opFailed, snapshot, checkedEvents>>

Hostess ==
    \/ main_while
    \/ waitForNextFlight_enter
    \/ waitForNextFlight_stat
    \/ waitForNextFlight_exit
    \/ waitForNextFlight_wait
    \/ waitForPassenger_enter
    \/ waitForPassenger_stat
    \/ waitForPassenger_exit
    \/ waitForPassenger_wait
    \/ checkPassport_call
    \/ checkPassport_enter1
    \/ checkPassport_stat
    \/ checkPassport_exit1
    \/ checkPassport_idShown
    \/ checkPassport_enter2
    \/ checkPassport_queue
    \/ checkPassport_flight
    \/ checkPassport_total
    \/ checkPassport_last
    \/ checkPassport_exit2
    \/ main_count
    \/ signalReadyToFlight_enter
    \/ signalReadyToFlight_stat
    \/ signalReadyToFlight_record
    \/ signalReadyToFlight_finished
    \/ signalReadyToFlight_exit
    \/ signalReadyToFlight_signal

(***************************************************************************)
(*                             The Passengers                              *)
(***************************************************************************)

(* A step of passenger p that only moves to the next statement after a     *)
(* semaphore operation.                                                    *)
pStep(p, from, to) ==
    /\ ppc[p] = from
    /\ ppc' = [ppc EXCEPT ![p] = to]
    /\ UNCHANGED <<shared, hlocal, pllocal, opFailed, snapshot,
                   checkedEvents>>

(* sh->fSt.st.passengerStat[passengerId] = st.  Inside the array the entry *)
(* is written.  Outside it the store is undefined behaviour: the process   *)
(* is killed at the store (it holds the mutex), or the store lands outside *)
(* the shared region and the process goes on.                              *)
writeStat(p, to, st) ==
    IF inBounds(p)
    THEN /\ ppc' = [ppc EXCEPT ![p] = to]
         /\ passengerStat' = [passengerStat EXCEPT ![p] = st]
    ELSE /\ ppc' \in {[ppc EXCEPT ![p] = to],
                      [ppc EXCEPT ![p] = "p_crashed"]}
         /\ passengerStat' = passengerStat

(* A step of passenger p inside a critical region that writes its status   *)
(* and saves the state.                                                    *)
pStat(p, from, to, st) ==
    /\ ppc[p] = from
    /\ writeStat(p, to, st)
    /\ UNCHANGED <<sem, nPassInQueue, nPassInFlight, totalPassBoarded,
                   nFlight, layout, nPassengersInFlight, finished, passengerChecked,
                   hostessStat, hlocal, pllocal, opFailed, checkedEvents>>
    /\ IF ppc'[p] = "p_crashed" THEN UNCHANGED snapshot ELSE saveState

(* travelToAirport(): a delay, no shared state. *)
travelToAirport(p) ==
    pStep(p, "travelToAirport", "wq_enter1") /\ UNCHANGED sem

(* waitInQueue(passengerId) *)
waitInQueue_enter1(p) == pStep(p, "wq_enter1", "wq_queue") /\ semDown("mutex")

(* sh->fSt.nPassInQueue++ *)
waitInQueue_queue(p) ==
    /\ ppc[p] = "wq_queue"
    /\ ppc' = [ppc EXCEPT ![p] = "wq_stat1"]
    /\ nPassInQueue' = nPassInQueue + 1
    /\ UNCHANGED <<sem, nPassInFlight, totalPassBoarded, nFlight, layout,
                   nPassengersInFlight, finished, passengerChecked,
                   hostessStat, passengerStat, hlocal, pllocal, opFailed,
                   snapshot, checkedEvents>>

(* Faulty variant: the status written on enqueueing is IN_FLIGHT. *)
waitInQueue_stat1_wrong(p) == pStat(p, "wq_stat1", "wq_exit1", "IN_FLIGHT")

waitInQueue_stat1(p) == pStat(p, "wq_stat1", "wq_exit1", "IN_QUEUE")

waitInQueue_exit1(p) == pStep(p, "wq_exit1", "wq_signal") /\ semUp("mutex")

waitInQueue_signal(p) ==
    pStep(p, "wq_signal", "wq_wait") /\ semUp("passengersInQueue")

waitInQueue_wait(p) ==
    pStep(p, "wq_wait", "wq_enter2") /\ semDown("passengersWaitInQueue")

waitInQueue_enter2(p) == pStep(p, "wq_enter2", "wq_checked") /\ semDown("mutex")

(* Faulty variant: the passenger does not write its id. *)
waitInQueue_checked_skip(p) ==
    pStep(p, "wq_checked", "wq_stat2") /\ UNCHANGED sem

(* sh->fSt.passengerChecked = passengerId *)
waitInQueue_checked(p) ==
    /\ ppc[p] = "wq_checked"
    /\ ppc' = [ppc EXCEPT ![p] = "wq_stat2"]
    /\ passengerChecked' = p
    /\ UNCHANGED <<sem, nPassInQueue, nPassInFlight, totalPassBoarded,
                   nFlight, layout, nPassengersInFlight, finished, hostessStat,
                   passengerStat, hlocal, pllocal, opFailed, snapshot,
                   checkedEvents>>

waitInQueue_stat2(p) == pStat(p, "wq_stat2", "wq_exit2", "IN_FLIGHT")

waitInQueue_exit2(p) == pStep(p, "wq_exit2", "wq_idShown") /\ semUp("mutex")

waitInQueue_idShown(p) == pStep(p, "wq_idShown", "wd_wait") /\ semUp("idShown")

(* waitUntilDestination(passengerId) *)
waitUntilDestination_wait(p) ==
    pStep(p, "wd_wait", "wd_enter") /\ semDown("passengersWaitInFlight")

waitUntilDestination_enter(p) ==
    pStep(p, "wd_enter", "wd_stat") /\ semDown("mutex")

(* sh->fSt.st.passengerStat[passengerId] = AT_DESTINATION (no saveState    *)
(* follows in this function).                                              *)
waitUntilDestination_stat(p) ==
    /\ ppc[p] = "wd_stat"
    /\ writeStat(p, "wd_leave", "AT_DESTINATION")
    /\ UNCHANGED <<sem, nPassInQueue, nPassInFlight, totalPassBoarded,
                   nFlight, layout, nPassengersInFlight, finished, passengerChecked,
                   hostessStat, hlocal, pllocal, opFailed, snapshot,
                   checkedEvents>>

(* sh->fSt.nPassInFlight-- *)
waitUntilDestination_leave(p) ==
    /\ ppc[p] = "wd_leave"
    /\ ppc' = [ppc EXCEPT ![p] = "wd_empty"]
    /\ nPassInFlight' = nPassInFlight - 1
    /\ UNCHANGED <<sem, nPassInQueue, totalPassBoarded, nFlight, layout,
                   nPassengersInFlight, finished, passengerChecked,
                   hostessStat, passengerStat, hlocal, pllocal, opFailed,
                   snapshot, checkedEvents>>

(* Faulty variant: no leaving passenger signals planeEmpty. *)
waitUntilDestination_empty_never(p) ==
    /\ pStep(p, "wd_empty", "wd_exit")
    /\ UNCHANGED sem

(* Faulty variant: every leaving passenger signals planeEmpty. *)
waitUntilDestination_empty_always(p) ==
    /\ pStep(p, "wd_empty", "wd_exit")
    /\ semUp("planeEmpty")

(* if (sh->fSt.nPassInFlight == 0) semUp(planeEmpty) *)
waitUntilDestination_empty(p) ==
    /\ pStep(p, "wd_empty", "wd_exit")
    /\ IF nPassInFlight = 0 THEN semUp("planeEmpty") ELSE UNCHANGED sem

waitUntilDestination_exit(p) == pStep(p, "wd_exit", "p_done") /\ semUp("mutex")

Passenger(p) ==
    \/ travelToAirport(p)
    \/ waitInQueue_enter1(p)
    \/ waitInQueue_queue(p)
    \/ waitInQueue_stat1(p)
    \/ waitInQueue_exit1(p)
    \/ waitInQueue_signal(p)
    \/ waitInQueue_wait(p)
    \/ waitInQueue_enter2(p)
    \/ waitInQueue_checked(p)
    \/ waitInQueue_stat2(p)
    \/ waitInQueue_exit2(p)
    \/ waitInQueue_idShown(p)
    \/ waitUntilDestination_wait(p)
    \/ waitUntilDestination_enter(p)
    \/ waitUntilDestination_stat(p)
    \/ waitUntilDestination_leave(p)
    \/ waitUntilDestination_empty(p)
    \/ waitUntilDestination_exit(p)

(***************************************************************************)
(*                               The Pilot                                 *)
(* Per flight cycle: signal readyForBoarding, wait readyToFlight, signal   *)
(* passengersWaitInFlight once per passenger that boarded (the count is    *)
(* nPassInFlight, read under the mutex before any passenger starts to      *)
(* leave), wait planeEmpty.  The contract gives it no other access to the  *)
(* shared record and no end: after the last flight it waits on             *)
(* readyToFlight.                                                          *)
(***************************************************************************)
plStep(from, to) ==
    /\ plpc = from
    /\ plpc' = to
    /\ UNCHANGED <<shared, hlocal, ppc, toDrop, opFailed, snapshot,
                   checkedEvents>>

pilot_readyForBoarding ==
    plStep("pl_boarding", "pl_wait") /\ semUp("readyForBoarding")

pilot_waitReadyToFlight ==
    plStep("pl_wait", "pl_enter2") /\ semDown("readyToFlight")

pilot_enter2 == plStep("pl_enter2", "pl_count") /\ semDown("mutex")

pilot_count ==
    /\ plpc = "pl_count"
    /\ plpc' = "pl_exit2"
    /\ toDrop' = nPassInFlight
    /\ UNCHANGED <<sem, shared, hlocal, ppc, opFailed, snapshot,
                   checkedEvents>>

pilot_exit2 == plStep("pl_exit2", "pl_drop") /\ semUp("mutex")

pilot_drop ==
    /\ plpc = "pl_drop"
    /\ IF toDrop > 0
       THEN /\ semUp("passengersWaitInFlight")
            /\ toDrop' = toDrop - 1
            /\ plpc' = "pl_drop"
       ELSE /\ plpc' = "pl_empty"
            /\ UNCHANGED <<sem, toDrop>>
    /\ UNCHANGED <<shared, hlocal, ppc, opFailed, snapshot, checkedEvents>>

pilot_planeEmpty ==
    plStep("pl_empty", "pl_boarding") /\ semDown("planeEmpty")

Pilot ==
    \/ pilot_readyForBoarding
    \/ pilot_waitReadyToFlight
    \/ pilot_enter2
    \/ pilot_count
    \/ pilot_exit2
    \/ pilot_drop
    \/ pilot_planeEmpty

Next ==
    \/ Hostess
    \/ \E p \in Passengers : Passenger(p)
    \/ Pilot

Spec == Init /\ [][Next]_vars

(* The processes are scheduled fairly: a process that can take a step      *)
(* eventually takes one.                                                   *)
(* The Pilot either runs its cycle or never takes a step (and so never     *)
(* signals readyForBoarding).                                              *)
PilotChoiceInit == InitButPilot /\ plpc \in {"pl_boarding", "pl_absent"}

PilotChoiceSpec == PilotChoiceInit /\ [][Next]_vars

FairSpec ==
    /\ Spec
    /\ WF_vars(Hostess)
    /\ WF_vars(Pilot)
    /\ \A p \in Passengers : WF_vars(Passenger(p))

(***************************************************************************)
(* A passenger process started with an argument outside [0, N).            *)
(***************************************************************************)

(* main() after the identification is accepted: the access key, the       *)
(* connection to the semaphore set and to the shared region.  A failure    *)
(* returns EXIT_FAILURE before the process has touched either.             *)
mainConnects(env) ==
    IF env.tinp3 # 0 THEN FALSE
    ELSE IF env.semgid = 0 - 1 THEN FALSE
    ELSE IF env.shmid = 0 - 1 THEN FALSE
    ELSE IF env.attach = 0 - 1 THEN FALSE
    ELSE TRUE

(* main() up to the life cycle: the statements the process can be at next. *)
(* strcpy(nFic, argv[2]) into nFic[51] is not guarded: a name of 51        *)
(* characters or more writes beyond nFic, which is undefined behaviour:    *)
(* the process is killed, or it goes on.                                   *)
mainOutcomes(n, env) ==
    IF env.argc # 5 THEN {"p_rejected"}
    ELSE IF ~idAccepted(n, env.tinp1) THEN {"p_rejected"}
    ELSE LET goesOn == IF mainConnects(env) THEN "travelToAirport"
                                            ELSE "p_rejected"
         IN  IF env.nFicLen > 50 THEN {"p_crashed", goesOn} ELSE {goesOn}

passenger_main(a, env) ==
    /\ ppc[a] = "p_main"
    /\ \E to \in mainOutcomes(a, env) : ppc' = [ppc EXCEPT ![a] = to]
    /\ UNCHANGED <<sem, shared, hlocal, pllocal, logged, opFailed>>

(* One process is at the start of main(): one of the launcher's            *)
(* passengers, or an extra process with an argument outside [0, N).        *)
LaunchInit ==
    /\ InitButProcesses
    /\ plpc = "pl_boarding"
    /\ \E a \in Procs :
          ppc = [p \in Procs |->
                    IF p = a THEN "p_main"
                    ELSE IF p \in Passengers THEN "travelToAirport"
                    ELSE "p_absent"]

LaunchNext ==
    \/ Next
    \/ \E a \in Procs : \E env \in LaunchEnvs : passenger_main(a, env)
    \/ \E a \in ExtraArgs : Passenger(a)

LaunchSpec == LaunchInit /\ [][LaunchNext]_vars

(***************************************************************************)
(*                     Failing semaphore operations                        *)
(* A semaphore operation may return -1 and leave the semaphore unchanged.  *)
(* Where the code tests the result the process exits; where it does not,   *)
(* the process goes on to its next statement.                              *)
(***************************************************************************)

(* At most this many semaphore operations fail in a run. *)
MaxFailures == 1

Failures ==
    (IF opFailed.hostess THEN 1 ELSE 0)
    + Cardinality({p \in Passengers : opFailed.passenger[p]})

(* Hostess statements that are a semaphore operation; each is followed by  *)
(* perror and exit(EXIT_FAILURE) when it fails.                            *)
HostessSemOps == {"wff_enter", "wff_exit", "wff_wait", "wfp_enter",
                  "wfp_exit", "wfp_wait", "cp_call", "cp_enter1", "cp_exit1",
                  "cp_idShown", "cp_enter2", "cp_exit2", "srf_enter",
                  "srf_exit", "srf_signal"}

hostess_semFail ==
    /\ Failures < MaxFailures
    /\ hpc \in HostessSemOps
    /\ hpc' = "h_exit"
    /\ opFailed' = [opFailed EXCEPT !.hostess = TRUE]
    /\ UNCHANGED <<sem, shared, nPassengers, last, rfbConsumed, rtfSignalled, departed,
                   ppc, pllocal, logged>>

(* Passenger statements that are a semaphore operation whose result is     *)
(* tested (the up of planeEmpty is issued only when nPassInFlight is 0).   *)
PassengerSemOps == {"wq_enter1", "wq_exit1", "wq_signal", "wq_wait",
                    "wq_enter2", "wq_exit2", "wq_idShown", "wd_enter",
                    "wd_exit"}

passenger_semFail(p) ==
    /\ Failures < MaxFailures
    /\ \/ ppc[p] \in PassengerSemOps
       \/ ppc[p] = "wd_empty" /\ nPassInFlight = 0
    /\ ppc' = [ppc EXCEPT ![p] = "p_exit"]
    /\ opFailed' = [opFailed EXCEPT !.passenger[p] = TRUE]
    /\ UNCHANGED <<sem, shared, hlocal, pllocal, logged>>

(* waitUntilDestination: semDown(semgid, sh->passengersWaitInFlight) is    *)
(* called without testing its result, so the passenger goes on.            *)
passenger_semFailIgnored(p) ==
    /\ Failures < MaxFailures
    /\ ppc[p] = "wd_wait"
    /\ ppc' = [ppc EXCEPT ![p] = "wd_enter"]
    /\ opFailed' = [opFailed EXCEPT !.passenger[p] = TRUE]
    /\ UNCHANGED <<sem, shared, hlocal, pllocal, logged>>

FailNext ==
    \/ Next
    \/ hostess_semFail
    \/ \E p \in Passengers : passenger_semFail(p)
    \/ \E p \in Passengers : passenger_semFailIgnored(p)

FailSpec == Init /\ [][FailNext]_vars

TypeOK ==
    /\ sem \in [Gates -> Nat]
    /\ nPassInQueue \in Int
    /\ nPassInFlight \in Int
    /\ totalPassBoarded \in Int
    /\ finished \in BOOLEAN
    /\ passengerChecked \in Procs
    /\ passengerStat \in [Passengers -> {"UNSTARTED", "IN_QUEUE", "IN_FLIGHT",
                                          "AT_DESTINATION"}]
    /\ DOMAIN ppc = Procs
    /\ DOMAIN checkedEvents = Procs

(***************************************************************************)
(*                          Auxiliary definitions                          *)
(***************************************************************************)

AtDestination == {p \in Passengers : passengerStat[p] = "AT_DESTINATION"}

(* Statements between a down and the matching up of the mutex (the up      *)
(* itself included: the process still holds the mutex before it).          *)
HostessRegion == {"wff_stat", "wff_exit", "wfp_stat", "wfp_exit", "cp_stat",
                  "cp_exit1", "cp_queue", "cp_flight", "cp_total", "cp_last",
                  "cp_exit2", "srf_stat", "srf_record", "srf_finished",
                  "srf_exit"}
PassengerRegion == {"wq_queue", "wq_stat1", "wq_exit1", "wq_checked",
                    "wq_stat2", "wq_exit2", "wd_stat", "wd_leave", "wd_empty",
                    "wd_exit"}
PilotRegion == {"pl_count", "pl_exit2"}

(* Statements that read or write a field of sh->fSt. *)
HostessAccess == {"wff_stat", "wfp_stat", "cp_stat", "cp_queue", "cp_flight",
                  "cp_total", "cp_last", "srf_stat", "srf_record",
                  "srf_finished"}
PassengerAccess == {"wq_queue", "wq_stat1", "wq_checked", "wq_stat2",
                    "wd_stat", "wd_leave", "wd_empty"}
PilotAccess == {"pl_count"}

AtAccess == (IF hpc \in HostessAccess THEN 1 ELSE 0)
            + (IF plpc \in PilotAccess THEN 1 ELSE 0)
            + Cardinality({p \in Passengers : ppc[p] \in PassengerAccess})

(* Statements that are an up of the mutex. *)
HostessRelease == {"wff_exit", "wfp_exit", "cp_exit1", "cp_exit2", "srf_exit"}
PassengerRelease == {"wq_exit1", "wq_exit2", "wd_exit"}
PilotRelease == {"pl_exit2"}

InRegion == (IF hpc \in HostessRegion THEN 1 ELSE 0)
            + (IF plpc \in PilotRegion THEN 1 ELSE 0)
            + Cardinality({p \in Passengers : ppc[p] \in PassengerRegion})

AtRelease == \/ hpc \in HostessRelease
             \/ plpc \in PilotRelease
             \/ \E p \in Passengers : ppc[p] \in PassengerRelease

(* The Hostess is boarding a flight: from the end of waitForNextFlight to  *)
(* the signal on readyToFlight.                                            *)
Boarding == {"wfp_enter", "wfp_stat", "wfp_exit", "wfp_wait", "cp_call",
             "cp_enter1", "cp_stat", "cp_exit1", "cp_idShown", "cp_enter2",
             "cp_queue", "cp_flight", "cp_total", "cp_last", "cp_exit2",
             "main_count", "srf_enter", "srf_stat", "srf_record",
             "srf_finished", "srf_exit", "srf_signal"}

(* The Hostess has decided the flight departs and has not signalled yet.   *)
Departing == {"srf_enter", "srf_stat", "srf_record", "srf_finished",
              "srf_exit", "srf_signal"}

(* Passengers woken from passengersWaitInQueue that have not signalled     *)
(* idShown yet.                                                            *)
InHandshake == {p \in Passengers :
                   ppc[p] \in {"wq_enter2", "wq_checked", "wq_stat2",
                               "wq_exit2", "wq_idShown"}}

AllDone == /\ hpc = "h_done"
           /\ plpc = "pl_wait"
           /\ \A p \in Passengers : ppc[p] = "p_done"

(***************************************************************************)
(*                                 Claims                                  *)
(***************************************************************************)

(* C1: in every reachable state 0 <= nPassInFlight <= MAXFC and            *)
(* 0 <= totalPassBoarded <= N.                                             *)
C1_CounterBounds ==
    /\ 0 <= nPassInFlight /\ nPassInFlight <= MAXFC
    /\ 0 <= totalPassBoarded /\ totalPassBoarded <= N

(* The plane is full while a passenger is still queued and not all have    *)
(* boarded.                                                                *)
C1_Witness ==
    /\ nPassInFlight = MAXFC
    /\ nPassInQueue > 0
    /\ totalPassBoarded < N
    /\ hpc = "cp_exit2"

(* C2: whenever the Hostess signals readyToFlight, the flight's headcount  *)
(* is at most MAXFC, and at least MINFC unless totalPassBoarded = N.       *)
C2_DepartureHeadcount ==
    hpc \in Departing =>
        /\ nPassInFlight <= MAXFC
        /\ (nPassInFlight >= MINFC \/ totalPassBoarded = N)

(* The last flight is about to be signalled with fewer than MINFC aboard.  *)
C2_Witness ==
    /\ hpc = "srf_signal"
    /\ nPassInFlight < MINFC
    /\ totalPassBoarded = N

(* C3: a passenger's status only changes unstarted -> IN_QUEUE ->          *)
(* IN_FLIGHT -> AT_DESTINATION, one transition at a time, never back.      *)
C3_StatusOrder ==
    [][\A p \in Passengers :
          passengerStat'[p] # passengerStat[p] =>
              <<passengerStat[p], passengerStat'[p]>> \in
                  {<<"UNSTARTED", "IN_QUEUE">>, <<"IN_QUEUE", "IN_FLIGHT">>,
                   <<"IN_FLIGHT", "AT_DESTINATION">>}]_vars

(* Every passenger has gone through the three transitions. *)
C3_Witness ==
    \A p \in Passengers :
        passengerStat[p] = "AT_DESTINATION" /\ ppc[p] = "p_done"

(* C4: under fair scheduling the Hostess's outer loop terminates; when it  *)
(* has, nPassengers = N and totalPassBoarded = N; and no state before that *)
(* is a deadlock.                                                          *)
C4_HostessTerminates ==
    /\ <>(hpc = "h_done")
    /\ [](hpc = "h_done" => nPassengers = N /\ totalPassBoarded = N)
    /\ [](hpc # "h_done" => ENABLED Next)

(* The Hostess has terminated after more than one flight. *)
C4_Witness ==
    /\ hpc = "h_done"
    /\ rtfSignalled >= 2

(* C5 as stated: nPassInQueue + nPassInFlight + |AT_DESTINATION| equals    *)
(* totalPassBoarded in every reachable state.                              *)
C5_Original ==
    nPassInQueue + nPassInFlight + Cardinality(AtDestination)
        = totalPassBoarded

(* C5 amended: whenever the mutex is free,                                 *)
(* nPassInFlight + |AT_DESTINATION| = totalPassBoarded (nPassInQueue       *)
(* counts passengers not boarded yet and is no part of the sum).           *)
C5_Conservation ==
    sem["mutex"] = 1 =>
        nPassInFlight + Cardinality(AtDestination) = totalPassBoarded

(* Passengers queued, aboard and arrived at once, with the mutex free. *)
C5_Witness ==
    /\ sem["mutex"] = 1
    /\ nPassInQueue > 0
    /\ nPassInFlight > 0
    /\ Cardinality(AtDestination) > 0

C7_OneAtATime ==
    LET inside == Cardinality(InHandshake) + sem["passengersWaitInQueue"]
                  + sem["idShown"]
    IN  /\ inside <= 1
        /\ hpc = "cp_call" => inside = 0

(* One passenger is handing over its id while another waits in the queue.  *)
C7_Witness ==
    \E p, q \in Passengers :
        /\ p # q
        /\ ppc[p] = "wq_checked"
        /\ ppc[q] = "wq_wait"

(* C8: planeEmpty is signalled only by the passenger whose decrement       *)
(* brought nPassInFlight to zero, when no passenger of the flight is left  *)
(* aboard and the Pilot has released every seat, and never twice for one   *)
(* flight.                                                                 *)
C8_PlaneEmptyOnce ==
    /\ [](sem["planeEmpty"] <= 1)
    /\ [][sem'["planeEmpty"] > sem["planeEmpty"] =>
             /\ sem["planeEmpty"] = 0
             /\ nPassInFlight = 0
             /\ sem["passengersWaitInFlight"] = 0
             /\ toDrop = 0
             /\ plpc \in {"pl_drop", "pl_empty"}
             /\ \A p \in Passengers :
                   /\ passengerStat[p] # "IN_FLIGHT"
                   /\ ppc[p] \notin {"wd_wait", "wd_enter"}
             /\ \E p \in Passengers :
                   /\ ppc[p] = "wd_empty"
                   /\ ppc'[p] = "wd_exit"]_vars

(* planeEmpty is pending for a second flight. *)
C8_Witness ==
    /\ sem["planeEmpty"] = 1
    /\ rtfSignalled = 2
    /\ Cardinality(AtDestination) = N

(* C9: while the Hostess is boarding it has consumed one readyForBoarding  *)
(* more than it has signalled readyToFlight and the Pilot, having          *)
(* signalled readyForBoarding, awaits readyToFlight; readyToFlight is      *)
(* signalled only after a departure decision that returned ready; and the  *)
(* readyToFlight signals never exceed the readyForBoarding consumed.       *)
C9_BoardingOrder ==
    /\ rtfSignalled <= rfbConsumed
    /\ hpc \in Boarding =>
           /\ rfbConsumed = rtfSignalled + 1
           /\ plpc = "pl_wait"
           /\ sem["readyForBoarding"] = 0
    /\ hpc \notin Boarding => rfbConsumed = rtfSignalled
    /\ hpc \in Departing => last

(* The Hostess is about to signal readyToFlight for a second flight. *)
C9_Witness ==
    /\ hpc = "srf_signal"
    /\ rfbConsumed = 2
    /\ rtfSignalled = 1

(* C10: at most one process is inside a region protected by the mutex;     *)
(* a process about to read or write the shared record is the only such     *)
(* process and the mutex is taken; every step that changes the shared      *)
(* record is taken by a process inside a region; and no process inside a   *)
(* region takes a down on another gate.                                    *)
C10_MutexDiscipline ==
    /\ [](sem["mutex"] + InRegion = 1)
    /\ [](AtAccess > 0 => AtAccess = 1 /\ sem["mutex"] = 0)
    /\ [][(shared' # shared) =>
             \/ hpc \in HostessRegion /\ hpc' # hpc
             \/ plpc \in PilotRegion /\ plpc' # plpc
             \/ \E p \in Passengers :
                   ppc[p] \in PassengerRegion /\ ppc'[p] # ppc[p]]_vars
    /\ [][(\E g \in Gates \ {"mutex"} : sem'[g] < sem[g]) =>
             /\ hpc' # hpc => hpc \notin HostessRegion
             /\ plpc' # plpc => plpc \notin PilotRegion
             /\ \A p \in Passengers :
                   ppc'[p] # ppc[p] => ppc[p] \notin PassengerRegion]_vars

(* The Hostess updates the counters inside the region while a passenger    *)
(* and the Pilot wait for the mutex.                                       *)
C10_Witness ==
    /\ hpc = "cp_flight"
    /\ sem["mutex"] = 0
    /\ \E p \in Passengers : ppc[p] \in {"wq_enter1", "wq_enter2"}

(* C11: a Hostess or Passenger process whose semaphore operation failed    *)
(* takes no further step: no write of the shared record, no semaphore      *)
(* operation.                                                              *)
C11_FailStop ==
    [][/\ opFailed.hostess => hlocal' = hlocal
       /\ \A p \in Passengers :
             opFailed.passenger[p] => ppc'[p] = ppc[p]]_vars

(* C12: if the Pilot never signals readyForBoarding, the Hostess stays at  *)
(* or before its wait on readyForBoarding with status WAIT_FOR_FLIGHT,     *)
(* totalPassBoarded stays 0, no passenger gets past its wait on            *)
(* passengersWaitInQueue, and readyToFlight is never signalled.            *)
C12_BlockedWithoutPilot ==
    plpc = "pl_absent" =>
        /\ hpc \in {"main_while", "wff_enter", "wff_stat", "wff_exit",
                    "wff_wait"}
        /\ hostessStat = "WAIT_FOR_FLIGHT"
        /\ totalPassBoarded = 0
        /\ \A p \in Passengers :
              ppc[p] \in {"travelToAirport", "wq_enter1", "wq_queue",
                          "wq_stat1", "wq_exit1", "wq_signal", "wq_wait"}
        /\ sem["passengersWaitInQueue"] = 0
        /\ sem["readyToFlight"] = 0
        /\ rtfSignalled = 0

(* Without a Pilot the Hostess is blocked on readyForBoarding and every    *)
(* passenger is blocked in the queue.                                      *)
C12_Witness ==
    /\ plpc = "pl_absent"
    /\ hpc = "wff_wait"
    /\ \A p \in Passengers : ppc[p] = "wq_wait"
    /\ nPassInQueue = N

(* C13: every change of the Hostess status or of a Passenger status is     *)
(* followed by a snapshot write (saveState) before the mutex is released:  *)
(* at every release of the mutex the last snapshot holds the current       *)
(* statuses.                                                               *)
C13_SavedBeforeRelease ==
    AtRelease =>
        snapshot = [hostess |-> hostessStat, passenger |-> passengerStat]

(* C14: the departure decision taken after a check-in, on the counters     *)
(* just updated, is ready exactly when nPassInFlight = MAXFC, or           *)
(* nPassInFlight >= MINFC and nPassInQueue = 0, or totalPassBoarded = N;   *)
(* when ready the Hostess goes to signalReadyToFlight with no further      *)
(* check-in, when not ready it goes to another check-in, and readyToFlight *)
(* is signalled only after a ready decision.                               *)
C14_DepartureDecision ==
    /\ [](hpc = "cp_exit2" =>
             (last <=> \/ nPassInFlight = MAXFC
                       \/ nPassInFlight >= MINFC /\ nPassInQueue = 0
                       \/ totalPassBoarded = N))
    /\ [][(hpc = "main_count" /\ hpc' # hpc) =>
             hpc' = IF last THEN "srf_enter" ELSE "wfp_enter"]_vars
    /\ [][(hpc \in Departing) =>
             (/\ last
              /\ totalPassBoarded' = totalPassBoarded
              /\ nPassInFlight' = nPassInFlight
              /\ hpc' \in (Departing \cup {"main_while"}))]_vars
    /\ [][rtfSignalled' # rtfSignalled => last /\ hpc = "srf_signal"]_vars

(* A flight below MAXFC is decided ready because the minimum is met and    *)
(* the queue is empty, while passengers are still to come.                 *)
C14_Witness ==
    /\ hpc = "cp_exit2"
    /\ last
    /\ nPassInFlight >= MINFC
    /\ nPassInFlight < MAXFC
    /\ nPassInQueue = 0
    /\ totalPassBoarded < N

(* The Hostess has recorded the headcount of the departing flight.         *)
Recorded == {"srf_finished", "srf_exit", "srf_signal"}

(* C15: on each READY_TO_FLIGHT transition the headcount (the current      *)
(* nPassInFlight) is stored at index nFlight of the per-flight sequence,   *)
(* a valid index of it.                                                    *)
C15_HeadcountAtNFlight ==
    hpc \in Recorded =>
        /\ nFlight \in DOMAIN nPassengersInFlight
        /\ nPassengersInFlight[nFlight] = nPassInFlight

(* Passengers that have signalled passengersInQueue. *)
Announced == {p \in Passengers :
                 ppc[p] \notin {"travelToAirport", "wq_enter1", "wq_queue",
                                "wq_stat1", "wq_exit1", "wq_signal"}}

(* The Hostess has waited on passengersInQueue for a passenger that it has *)
(* not counted in totalPassBoarded yet.                                    *)
Serving == {"cp_call", "cp_enter1", "cp_stat", "cp_exit1", "cp_idShown",
            "cp_enter2", "cp_queue", "cp_flight", "cp_total"}

(* C16 as stated: after a check-in that is not ready the Hostess's next    *)
(* statement is the signal on passengersWaitInQueue, and within a flight   *)
(* it is in waitForPassenger only before the first check-in.               *)
C16_Original ==
    /\ [][(hpc = "main_count" /\ hpc' # hpc /\ ~last) =>
             hpc' = "cp_call"]_vars
    /\ [](hpc \in {"wfp_enter", "wfp_stat", "wfp_exit", "wfp_wait"} =>
             nPassInFlight = 0)

(* C16 amended: after a check-in that is not ready the Hostess goes back   *)
(* to waitForPassenger (status WAIT_FOR_PASSENGER under the mutex, then    *)
(* the wait on passengersInQueue) before it signals                        *)
(* passengersWaitInQueue; it waits on passengersInQueue once per check-in. *)
C16_LoopBack ==
    /\ [][(hpc = "main_count" /\ hpc' # hpc /\ ~last) =>
             hpc' = "wfp_enter"]_vars
    /\ [][(hpc = "wfp_wait" /\ hpc' # hpc) =>
             /\ hpc' = "cp_call"
             /\ sem'["passengersInQueue"] = sem["passengersInQueue"] - 1]_vars
    /\ [](sem["passengersInQueue"] + totalPassBoarded
              + (IF hpc \in Serving THEN 1 ELSE 0)
          = Cardinality(Announced))

(* With a passenger already aboard, the Hostess is blocked on              *)
(* passengersInQueue for the next one.                                     *)
C16_Witness ==
    /\ hpc = "wfp_wait"
    /\ nPassInFlight >= 1
    /\ sem["passengersInQueue"] = 0

(* C17 as stated: under fair scheduling every passenger ends with status   *)
(* AT_DESTINATION, and in every state where all have it nPassInQueue = 0,  *)
(* nPassInFlight = 0, totalPassBoarded = N and finished holds.             *)
C17_Original ==
    /\ <>(AtDestination = Passengers)
    /\ [](AtDestination = Passengers =>
             /\ nPassInQueue = 0
             /\ nPassInFlight = 0
             /\ totalPassBoarded = N
             /\ finished)

(* C17 amended: under fair scheduling every passenger gets past its waits  *)
(* on passengersWaitInQueue and passengersWaitInFlight and ends with       *)
(* status AT_DESTINATION; in every state where all have it,                *)
(* nPassInQueue = 0, totalPassBoarded = N and finished holds, and          *)
(* nPassInFlight = 0 except while the last passenger is between the write  *)
(* of its status and its decrement of nPassInFlight, where it is 1.        *)
C17_AllArrive ==
    /\ <>(\A p \in Passengers :
             ppc[p] = "p_done" /\ passengerStat[p] = "AT_DESTINATION")
    /\ [](\A p \in Passengers :
             ppc[p] = "p_done" => passengerStat[p] = "AT_DESTINATION")
    /\ [](AtDestination = Passengers =>
             /\ nPassInQueue = 0
             /\ totalPassBoarded = N
             /\ finished
             /\ nPassInFlight =
                    IF \E p \in Passengers : ppc[p] = "wd_leave" THEN 1
                                                                ELSE 0)

(* Every passenger has left waitUntilDestination, after more than one      *)
(* flight.                                                                 *)
C17_Witness ==
    /\ \A p \in Passengers :
          ppc[p] = "p_done" /\ passengerStat[p] = "AT_DESTINATION"
    /\ rtfSignalled >= 2
    /\ nPassInFlight = 0
    /\ finished

(* Passengers that have incremented nPassInQueue. *)
Enqueued == {p \in Passengers :
                ppc[p] \notin {"travelToAirport", "wq_enter1", "wq_queue"}}

InQueue == {p \in Passengers : passengerStat[p] = "IN_QUEUE"}

(* A passenger has written its id and status IN_FLIGHT and the Hostess has *)
(* not entered the critical region that updates the counters.              *)
ShownUncounted ==
    \/ \E p \in Passengers : ppc[p] \in {"wq_exit2", "wq_idShown"}
    \/ sem["idShown"] = 1
    \/ hpc = "cp_enter2"

(* C18: whenever the mutex is free,                                        *)
(* nPassInFlight + |AT_DESTINATION| = totalPassBoarded,                    *)
(* nPassInQueue = |enqueued| - totalPassBoarded >= 0, and                  *)
(* nPassInQueue - |IN_QUEUE| is 0 or 1, being 1 exactly while a passenger  *)
(* has shown its id and the Hostess has not updated the counters.          *)
C18_QueueAccounting ==
    sem["mutex"] = 1 =>
        /\ nPassInFlight + Cardinality(AtDestination) = totalPassBoarded
        /\ nPassInQueue = Cardinality(Enqueued) - totalPassBoarded
        /\ nPassInQueue >= 0
        /\ nPassInQueue - Cardinality(InQueue) \in {0, 1}
        /\ (nPassInQueue - Cardinality(InQueue) = 1) <=> ShownUncounted

(* Mutex free, earlier passengers arrived, one aboard and counted, and one *)
(* more that has shown its id and is not counted yet.                      *)
C18_Witness ==
    /\ sem["mutex"] = 1
    /\ Cardinality(AtDestination) >= 1
    /\ nPassInFlight >= 1
    /\ nPassInQueue - Cardinality(InQueue) = 1
    /\ hpc = "cp_enter2"

(* Passengers woken from passengersWaitInQueue for which no check-in event *)
(* has been logged.                                                        *)
Woken == {p \in Passengers :
             /\ ppc[p] \notin {"travelToAirport", "wq_enter1", "wq_queue",
                               "wq_stat1", "wq_exit1", "wq_signal", "wq_wait"}
             /\ checkedEvents[p] = 0}

(* The Hostess is in the critical region that updates the counters, before *)
(* the check-in event is logged.                                           *)
Counting == {"cp_queue", "cp_flight", "cp_total"}

(* C19: while the Hostess updates the counters and logs the check-in,      *)
(* passengerChecked is the one passenger woken by the preceding            *)
(* passengersWaitInQueue signal and its status is IN_FLIGHT;               *)
(* passengerChecked is written only by that passenger, between the signal  *)
(* and the Hostess's return from idShown; no id is logged twice, and when  *)
(* the Hostess has terminated every id in 0 .. N-1 is logged exactly once. *)
C19_CheckedIdentity ==
    /\ [](hpc \in Counting =>
             /\ Woken = {passengerChecked}
             /\ passengerStat[passengerChecked] = "IN_FLIGHT"
             /\ InHandshake = {})
    /\ [][(passengerChecked' # passengerChecked) =>
             (/\ ppc[passengerChecked'] = "wq_checked"
              /\ Woken = {passengerChecked'}
              /\ hpc \in {"cp_enter1", "cp_stat", "cp_exit1", "cp_idShown"})
         ]_vars
    /\ [](\A p \in Passengers : checkedEvents[p] <= 1)
    /\ [](hpc = "h_done" => \A p \in Passengers : checkedEvents[p] = 1)

(* The Hostess is about to log the check-in of a passenger other than the  *)
(* one logged before it.                                                   *)
C19_Witness ==
    /\ hpc = "cp_total"
    /\ totalPassBoarded >= 1
    /\ passengerChecked # 0
    /\ checkedEvents[0] = 1
    /\ checkedEvents[passengerChecked] = 0
    /\ passengerStat[passengerChecked] = "IN_FLIGHT"

(* Sum of the first k headcounts at departure. *)
RECURSIVE Headcounts(_)
Headcounts(k) ==
    IF k <= 0 THEN 0 ELSE departed[k] + Headcounts(k - 1)

(* C20: at each readyToFlight signal the headcount (nPassInFlight) is at   *)
(* least 1, the headcounts of the flights departed so far sum to the       *)
(* passengers checked in for them, and when the Hostess has terminated     *)
(* they sum to N.                                                          *)
C20_HeadcountSum ==
    /\ Len(departed) = rtfSignalled
    /\ \A f \in DOMAIN departed : departed[f] >= 1
    /\ hpc = "srf_signal" =>
          /\ nPassInFlight >= 1
          /\ Headcounts(Len(departed)) + nPassInFlight = totalPassBoarded
    /\ hpc \in {"main_while", "h_done"} =>
          Headcounts(Len(departed)) = totalPassBoarded
    /\ hpc = "h_done" => Headcounts(Len(departed)) = N

(* The Hostess has terminated after two flights of different sizes. *)
C20_Witness ==
    /\ hpc = "h_done"
    /\ departed = <<MAXFC, N - MAXFC>>

=============================================================================
